---- MODULE Spec2Model ----
(***************************************************************************)
(* Model of perf/semgrep_core_benchmark.py: the sequential benchmark       *)
(* driver run_benchmarks, the engine runner run_semgrep_core, the chdir    *)
(* context manager and upload_result.                                      *)
(*                                                                         *)
(* A Python str that the code takes apart (SemgrepVariant's                *)
(* semgrep_core_extra) is a sequence of pieces, each piece either the      *)
(* separator " " or a run of non-space characters; the Python "" is <<>>.  *)
(* Strings the code only concatenates (paths, names) are TLA+ strings.     *)
(* The measured duration t2 - t1 never influences control flow and is      *)
(* kept symbolic in the result line.                                       *)
(***************************************************************************)
EXTENDS Integers, Sequences, FiniteSets, TLC

VARIABLES
    dummy,      \* argument of run_benchmarks
    upload,     \* argument of run_benchmarks
    start_dir,  \* os.getcwd() when run_benchmarks is called
    pc,         \* position of the driver in run_benchmarks
    ci,         \* index of the current corpus in the selected table
    vi,         \* index of the current variant in SEMGREP_CORE_VARIANTS
    cwd,        \* the process working directory
    old_dir,    \* the directory saved by the active chdir scope
    results,    \* the list `results` of run_benchmarks
    printed,    \* lines printed by the final loop of run_benchmarks
    trace,      \* history: external calls made so far, in order
    status,     \* exit status of the last subprocess (prep or engine)
    outcomes,   \* what the last run_semgrep_core produced
    http_ok,    \* whether the last urlopen returned
    exc,        \* the exception that ended the run, "none" otherwise
    call        \* one isolated call of run_semgrep_core (ArgSpec)

vars == <<dummy, upload, start_dir, pc, ci, vi, cwd, old_dir, results,
          printed, trace, status, outcomes, http_ok, exc, call>>

driver_vars == <<dummy, upload, start_dir, pc, ci, vi, cwd, old_dir, results,
                 printed, trace, status, outcomes, http_ok, exc>>

----------------------------------------------------------------------------
(* Bounds of the model *)

\* exit statuses range over -MaxSignal .. MaxExit
MaxSignal == 2
MaxExit == 4
\* longest semgrep_core_extra string (in pieces) given to an isolated call
MaxExtraLen == 4

ExitCodes == (0 - MaxSignal)..MaxExit
StartDirs == {"/perf", "/home/ci/perf"}
Pieces == {"-a", "-b", " "}

----------------------------------------------------------------------------
(* Static tables *)

Corpus(name, rule_dir, target_dir, language) ==
    [name |-> name, rule_dir |-> rule_dir, target_dir |-> target_dir,
     language |-> language]

CORPUSES == <<
    Corpus("big-js", "input/semgrep.yml", "input/big-js", "js"),
    Corpus("zulip", "input/semgrep.yml", "input/zulip", "python"),
    Corpus("apache", "input/django.yml", "input/libcloud", "python"),
    Corpus("dropbox", "input/flask.yml", "input/pytest-flakefinder", "python"),
    Corpus("0c34", "input/golang.yml", "input/govwa", "go"),
    Corpus("rails", "input/ruby.yml", "input/rails", "ruby") >>

DUMMY_CORPUSES ==
    << Corpus("dummy", "input/dummy/rules", "input/dummy/targets", "js") >>

SemgrepVariant(name, semgrep_core_extra) ==
    [name |-> name, semgrep_core_extra |-> semgrep_core_extra]

SEMGREP_CORE_VARIANTS == <<
    SemgrepVariant("std", <<>>),
    SemgrepVariant("no-bloom", <<"-no_bloom_filter">>),
    SemgrepVariant("filter-irrelevant-rules", <<"-filter_irrelevant_rules">>),
    SemgrepVariant("filter-rules_no-bloom",
                   <<"-filter_irrelevant_rules", " ", "-no_bloom_filter">>) >>

\* corpuses = CORPUSES; if dummy: corpuses = DUMMY_CORPUSES
Corpuses(d) == IF d THEN DUMMY_CORPUSES ELSE CORPUSES

----------------------------------------------------------------------------
(* Pure helpers *)

\* os.path.abspath of a relative path p when the working directory is dir;
\* os.chdir to a relative name lands in the same place
abspath(dir, p) == dir \o "/" \o p

\* str.split(" "): every separator ends a token, empty tokens are kept
RECURSIVE SplitFrom(_, _, _, _)
SplitFrom(s, i, cur, acc) ==
    IF i > Len(s) THEN Append(acc, cur)
    ELSE IF s[i] = " " THEN SplitFrom(s, i + 1, "", Append(acc, cur))
    ELSE SplitFrom(s, i + 1, cur \o s[i], acc)

\* faulty variant: str.split() with no separator, which drops empty tokens
split_whitespace(s) == SelectSeq(SplitFrom(s, 1, "", <<>>), LAMBDA t : t # "")

split(s) == SplitFrom(s, 1, "", <<>>)

common_args == <<"-timeout", "0">>

\* faulty variant: the guard on the empty extra string is missing
build_args_unguarded(corpus, variant, dir) ==
    <<"semgrep-core", "-j", "8", "-lang", corpus.language, "-config",
      abspath(dir, corpus.rule_dir), abspath(dir, corpus.target_dir)>>
    \o common_args \o split(variant.semgrep_core_extra)

\* the list `args` of run_semgrep_core, built in working directory dir
build_args(corpus, variant, dir) ==
    LET base == <<"semgrep-core", "-j", "8", "-lang", corpus.language,
                  "-config", abspath(dir, corpus.rule_dir),
                  abspath(dir, corpus.target_dir)>> \o common_args
    IN  IF variant.semgrep_core_extra # <<>>
        THEN base \o split(variant.semgrep_core_extra)
        ELSE base

\* faulty variant: only positive codes raise
check_returncode_positive(returncode) == returncode > 0

\* CompletedProcess.check_returncode: TRUE iff CalledProcessError is raised
check_returncode(returncode) == returncode # 0

\* faulty variant: cmd runs the command with check=False
cmd_unchecked(returncode) == FALSE

\* cmd: subprocess.run(args, check=True); TRUE iff CalledProcessError is raised
cmd_raises(returncode) == check_returncode(returncode)

\* faulty variant: the branch for status 3 is missing
engine_raises_without_warning(st) == st # 0 /\ check_returncode(st)

\* whether run_semgrep_core raises instead of returning the duration
engine_raises(st) == st # 0 /\ st # 3 /\ check_returncode(st)

\* what run_semgrep_core reports for an exit status
engine_outcomes(st) ==
    (IF st = 0 THEN {"success"} ELSE {})
    \cup (IF st # 0 /\ st = 3 THEN {"warning"} ELSE {})
    \cup (IF engine_raises(st) THEN {"fatal"} ELSE {})

\* name and metric_name of run_benchmarks
metric_name(corpus, variant) ==
    "semgrep-core" \o "." \o "bench" \o "." \o corpus.name \o "."
    \o variant.name \o "." \o "duration"

\* msg = f"{metric_name} = {duration:.3f} s", the duration kept symbolic
result_line(corpus, variant) == metric_name(corpus, variant) \o " = <duration> s"

\* faulty variant: `if upload` dropped, every result is uploaded
upload_always(u) == TRUE

\* the condition of `if upload:`
upload_wanted(u) == u

Event(kind, c, v, args) == [kind |-> kind, ci |-> c, vi |-> v, args |-> args]

NoCall == [corpus |-> DUMMY_CORPUSES[1], variant |-> SemgrepVariant("none", <<>>),
           dir |-> "", args |-> <<>>, done |-> FALSE]

----------------------------------------------------------------------------
(* The driver *)

Init ==
    /\ dummy \in BOOLEAN
    /\ upload \in BOOLEAN
    /\ start_dir \in StartDirs
    /\ pc = "Idle"
    /\ ci = 0
    /\ vi = 0
    /\ cwd = start_dir
    /\ old_dir = start_dir
    /\ results = <<>>
    /\ printed = <<>>
    /\ trace = <<>>
    /\ status = 0
    /\ outcomes = {}
    /\ http_ok = TRUE
    /\ exc = "none"
    /\ call = NoCall

\* faulty variant: the restore is not in a finally clause
chdir_exit_no_finally(raising) == IF raising THEN cwd ELSE old_dir

\* leaving the chdir scope: finally: os.chdir(old_dir)
chdir_exit(raising) == old_dir

\* an exception raised inside the with block unwinds through the chdir scope
\* and out of run_benchmarks
Raise(kind) ==
    /\ pc' = "Aborted"
    /\ exc' = kind
    /\ cwd' = chdir_exit(TRUE)
    /\ UNCHANGED <<ci, vi>>

\* faulty variant: the variant loop stops one variant early
Advance_short ==
    IF vi < Len(SEMGREP_CORE_VARIANTS) - 1
    THEN /\ pc' = "RunningVariant"
         /\ vi' = vi + 1
         /\ UNCHANGED <<ci, cwd, exc>>
    ELSE /\ cwd' = chdir_exit(FALSE)
         /\ vi' = 0
         /\ UNCHANGED exc
         /\ IF ci < Len(Corpuses(dummy))
            THEN ci' = ci + 1 /\ pc' = "EnterFixture"
            ELSE ci' = ci /\ pc' = "Summarizing"

\* the loop headers: next variant, or leave the scope and take the next
\* corpus, or fall through to the summary loop
Advance ==
    IF vi < Len(SEMGREP_CORE_VARIANTS)
    THEN /\ pc' = "RunningVariant"
         /\ vi' = vi + 1
         /\ UNCHANGED <<ci, cwd, exc>>
    ELSE /\ cwd' = chdir_exit(FALSE)
         /\ vi' = 0
         /\ UNCHANGED exc
         /\ IF ci < Len(Corpuses(dummy))
            THEN ci' = ci + 1 /\ pc' = "EnterFixture"
            ELSE ci' = ci /\ pc' = "Summarizing"

\* results = []; corpuses selected; first iteration of the corpus loop
Start ==
    /\ pc = "Idle"
    /\ results' = <<>>
    /\ ci' = 1
    /\ pc' = "EnterFixture"
    /\ UNCHANGED <<dummy, upload, start_dir, vi, cwd, old_dir, printed, trace,
                   status, outcomes, http_ok, exc, call>>

\* with chdir(corpus.name): old_dir = os.getcwd(); os.chdir(dir), which
\* raises when the directory cannot be entered
EnterChdir ==
    /\ pc = "EnterFixture"
    /\ \E ok \in BOOLEAN :
        /\ trace' = Append(trace, Event("chdir", ci, 0, <<>>))
        /\ IF ok
           THEN /\ old_dir' = cwd
                /\ cwd' = abspath(cwd, Corpuses(dummy)[ci].name)
                /\ pc' = "PreparingFixture"
                /\ UNCHANGED exc
           ELSE /\ pc' = "Aborted"
                /\ exc' = "OSError"
                /\ UNCHANGED <<cwd, old_dir>>
    /\ UNCHANGED <<dummy, upload, start_dir, ci, vi, results, printed, status,
                   outcomes, http_ok, call>>

\* corpus.prep(): cmd("./prep") is subprocess.run(args, check=True)
Prep ==
    /\ pc = "PreparingFixture"
    /\ \E st \in ExitCodes :
        /\ status' = st
        /\ trace' = Append(trace, Event("prep", ci, 0, <<>>))
        /\ IF cmd_raises(st)
           THEN Raise("CalledProcessError")
           ELSE /\ pc' = "RunningVariant"
                /\ vi' = 1
                /\ UNCHANGED <<ci, cwd, exc>>
    /\ UNCHANGED <<dummy, upload, start_dir, old_dir, results, printed,
                   outcomes, http_ok, call>>

\* one iteration of the variant loop up to `if upload:`
RunVariant ==
    /\ pc = "RunningVariant"
    /\ \E st \in ExitCodes :
        LET corpus == Corpuses(dummy)[ci]
            variant == SEMGREP_CORE_VARIANTS[vi]
        IN  /\ status' = st
            /\ outcomes' = engine_outcomes(st)
            /\ trace' = Append(trace,
                   Event("engine", ci, vi, build_args(corpus, variant, cwd)))
            /\ IF engine_raises(st)
               THEN /\ Raise("CalledProcessError")
                    /\ UNCHANGED results
               ELSE /\ results' = Append(results, result_line(corpus, variant))
                    /\ IF upload_wanted(upload)
                       THEN /\ pc' = "Reporting"
                            /\ UNCHANGED <<ci, vi, cwd, exc>>
                       ELSE Advance
    /\ UNCHANGED <<dummy, upload, start_dir, old_dir, printed, http_ok, call>>

\* faulty variant: the request error is caught and the loop goes on
upload_failed_caught == Advance

\* urlopen raised: nothing catches it
upload_failed == Raise("URLError")

\* upload_result(metric_name, duration), then the loop headers
Upload ==
    /\ pc = "Reporting"
    /\ \E ok \in BOOLEAN :
        /\ http_ok' = ok
        /\ trace' = Append(trace, Event("upload", ci, vi, <<>>))
        /\ IF ok THEN Advance ELSE upload_failed
    /\ UNCHANGED <<dummy, upload, start_dir, old_dir, results, printed,
                   status, outcomes, call>>

\* faulty variant: the summary loop prints the newest line first
next_summary_line_reversed == results[Len(results) - Len(printed)]

\* the line the loop `for msg in results` prints next
next_summary_line == results[Len(printed) + 1]

\* for msg in results: print(msg)
PrintSummaryLine ==
    /\ pc = "Summarizing"
    /\ Len(printed) < Len(results)
    /\ printed' = Append(printed, next_summary_line)
    /\ UNCHANGED <<dummy, upload, start_dir, pc, ci, vi, cwd, old_dir, results,
                   trace, status, outcomes, http_ok, exc, call>>

\* run_benchmarks returns
Finish ==
    /\ pc = "Summarizing"
    /\ Len(printed) = Len(results)
    /\ pc' = "Done"
    /\ UNCHANGED <<dummy, upload, start_dir, ci, vi, cwd, old_dir, results,
                   printed, trace, status, outcomes, http_ok, exc, call>>

Next ==
    \/ Start
    \/ EnterChdir
    \/ Prep
    \/ RunVariant
    \/ Upload
    \/ PrintSummaryLine
    \/ Finish

Spec == Init /\ [][Next]_vars

\* every external call returns or fails in finite time, and the interpreter
\* keeps executing the single thread
FairSpec == Spec /\ WF_vars(Next)

----------------------------------------------------------------------------
(* One isolated call of run_semgrep_core's argument construction *)

RECURSIVE SeqsUpTo(_, _)
SeqsUpTo(S, n) ==
    IF n = 0 THEN {<<>>}
    ELSE LET shorter == SeqsUpTo(S, n - 1)
         IN  shorter \cup {Append(s, x) : s \in shorter, x \in S}

ArgInit ==
    /\ dummy = TRUE
    /\ upload = FALSE
    /\ start_dir = "/perf"
    /\ pc = "Idle"
    /\ ci = 0
    /\ vi = 0
    /\ cwd = start_dir
    /\ old_dir = start_dir
    /\ results = <<>>
    /\ printed = <<>>
    /\ trace = <<>>
    /\ status = 0
    /\ outcomes = {}
    /\ http_ok = TRUE
    /\ exc = "none"
    /\ \E c \in {DUMMY_CORPUSES[1], CORPUSES[2]}, s \in SeqsUpTo(Pieces, MaxExtraLen) :
         call = [corpus |-> c, variant |-> SemgrepVariant("v", s),
                 dir |-> abspath("/perf", c.name), args |-> <<>>, done |-> FALSE]

BuildArgs ==
    /\ ~call.done
    /\ call' = [call EXCEPT !.args = build_args(call.corpus, call.variant, call.dir),
                            !.done = TRUE]
    /\ UNCHANGED driver_vars

ArgNext == BuildArgs

ArgSpec == ArgInit /\ [][ArgNext]_vars

----------------------------------------------------------------------------
(* Properties *)

NC == Len(Corpuses(dummy))
NV == Len(SEMGREP_CORE_VARIANTS)
Last == trace[Len(trace)]
LastIs(kind) == trace # <<>> /\ Last.kind = kind
EngineEvents == {k \in DOMAIN trace : trace[k].kind = "engine"}
UploadEvents == {k \in DOMAIN trace : trace[k].kind = "upload"}
LineFor(c, v) ==
    "semgrep-core.bench." \o Corpuses(dummy)[c].name \o "."
    \o SEMGREP_CORE_VARIANTS[v].name \o ".duration = <duration> s"

PrepFailed == LastIs("prep") /\ status # 0
EngineFatal == LastIs("engine") /\ status \notin {0, 3}
EngineWarning == LastIs("engine") /\ status = 3
UploadFailed == LastIs("upload") /\ ~http_ok

\* C1: once a prep call has exited non-zero, or an engine run has ended with
\* a status other than 0 and 3, the run is aborted: no prep call, engine
\* invocation or upload follows, and no summary line is ever printed.
C1_AbortOnFailure ==
    /\ []((PrepFailed \/ EngineFatal) =>
            /\ pc = "Aborted"
            /\ exc = "CalledProcessError"
            /\ printed = <<>>)
    /\ [][(PrepFailed \/ EngineFatal) =>
            UNCHANGED <<trace, printed, results, pc>>]_vars

C1_Witness ==
    /\ EngineFatal
    /\ status = 2
    /\ Last.ci = 2 /\ Last.vi = 3
    /\ pc = "Aborted"

C1_WitnessPrep == PrepFailed /\ Last.ci = 3 /\ pc = "Aborted"

\* C2: the engine runner classifies every exit status into exactly one of
\* success, warning, fatal: 0 is success, 3 is warning, every other status
\* (negative ones included) is fatal, and fatal means an error is raised and
\* no duration is returned (no result line is logged for the run).
C2_ClassificationTotal ==
    LastIs("engine") =>
        /\ Cardinality(outcomes) = 1
        /\ (status = 0 <=> outcomes = {"success"})
        /\ (status = 3 <=> outcomes = {"warning"})
        /\ (status \notin {0, 3} <=> outcomes = {"fatal"})
        /\ ("fatal" \in outcomes <=> pc = "Aborted" /\ exc = "CalledProcessError")
        /\ Len(results) =
             Cardinality(EngineEvents) - (IF "fatal" \in outcomes THEN 1 ELSE 0)

C2_Witness == LastIs("engine") /\ status = 0 - MaxSignal /\ outcomes = {"fatal"}

\* C3: an engine run that ends with status 3 does not abort the run: its
\* result line is appended to the log, it is uploaded next when upload is
\* enabled, and the driver continues where it continues after status 0.
C3_WarningContinues ==
    /\ EngineWarning =>
        /\ exc = "none"
        /\ results # <<>>
        /\ results[Len(results)] = LineFor(Last.ci, Last.vi)
        /\ Len(results) = Cardinality(EngineEvents)
        /\ IF upload THEN pc = "Reporting" /\ ci = Last.ci /\ vi = Last.vi
           ELSE IF Last.vi < NV
                THEN pc = "RunningVariant" /\ ci = Last.ci /\ vi = Last.vi + 1
           ELSE IF Last.ci < NC
                THEN pc = "EnterFixture" /\ ci = Last.ci + 1
           ELSE pc \in {"Summarizing", "Done"}
    /\ (LastIs("upload") /\ status = 3) =>
        /\ Len(trace) > 1
        /\ trace[Len(trace) - 1].kind = "engine"
        /\ trace[Len(trace) - 1].ci = Last.ci
        /\ trace[Len(trace) - 1].vi = Last.vi

C3_Witness ==
    /\ EngineWarning
    /\ upload
    /\ pc = "Reporting"
    /\ Len(results) = 6
    /\ results[6] = "semgrep-core.bench.zulip.no-bloom.duration = <duration> s"

\* C4: the working directory is back at its pre-fixture value whenever a
\* chdir scope has been left, normally or by an error of prep, the engine
\* or the upload: each fixture iteration starts in the directory the driver
\* was started in, the run ends in it, and inside a scope the directory is
\* the fixture's.
C4_CwdRestored ==
    /\ pc \in {"Idle", "EnterFixture", "Summarizing", "Done", "Aborted"} =>
         cwd = start_dir
    /\ pc \in {"PreparingFixture", "RunningVariant", "Reporting"} =>
         /\ old_dir = start_dir
         /\ cwd = start_dir \o "/" \o Corpuses(dummy)[ci].name

C4_Witness ==
    /\ pc = "Aborted"
    /\ exc = "URLError"
    /\ ci = 2
    /\ cwd = start_dir

C4_WitnessNormal == pc = "EnterFixture" /\ ci = 3 /\ cwd = start_dir

\* C5: with upload disabled no upload is ever attempted, and when the run
\* completes the printed summary holds the result line of every
\* (fixture, variant) pair that was run.
C5_NoUploadWhenDisabled ==
    ~upload =>
        /\ UploadEvents = {}
        /\ pc # "Reporting"
        /\ pc = "Done" =>
             /\ \A k \in EngineEvents :
                  \E n \in DOMAIN printed : printed[n] = LineFor(trace[k].ci, trace[k].vi)
             /\ Len(printed) = Cardinality(EngineEvents)

C5_Witness == ~upload /\ ~dummy /\ pc = "Done" /\ Len(printed) = 24

\* C6: the argument vector of every engine invocation is the program name,
\* -j 8, -lang and the fixture's language, -config and the absolute rule
\* path, the absolute target path, -timeout 0, then the variant's flags in
\* order; for the variant without flags the vector has exactly 10 tokens.
VariantFlags(v) ==
    CASE v = 1 -> <<>>
      [] v = 2 -> <<"-no_bloom_filter">>
      [] v = 3 -> <<"-filter_irrelevant_rules">>
      [] v = 4 -> <<"-filter_irrelevant_rules", "-no_bloom_filter">>

C6_ArgumentVector ==
    \A k \in EngineEvents :
        LET F == Corpuses(dummy)[trace[k].ci]
            here == start_dir \o "/" \o F.name
        IN  /\ trace[k].args =
                 <<"semgrep-core", "-j", "8", "-lang", F.language, "-config",
                   here \o "/" \o F.rule_dir, here \o "/" \o F.target_dir,
                   "-timeout", "0">> \o VariantFlags(trace[k].vi)
            /\ SEMGREP_CORE_VARIANTS[trace[k].vi].semgrep_core_extra = <<>> =>
                 Len(trace[k].args) = 10

C6_Witness ==
    /\ dummy
    /\ start_dir = "/perf"
    /\ Len(trace) > 5
    /\ trace[3].args =
         <<"semgrep-core", "-j", "8", "-lang", "js", "-config",
           "/perf/dummy/input/dummy/rules", "/perf/dummy/input/dummy/targets",
           "-timeout", "0">>
    /\ \E k \in EngineEvents : Len(trace[k].args) = 12

\* C7: events happen in table order: per fixture one chdir and one prep
\* before its engine runs, the variants in order, each engine run followed
\* by the logging (and, when enabled, the upload) of that run's result
\* before the next run; the summary starts only after every pair has run
\* and prints the logged lines in the order of the runs.
BlockLen == 2 + NV * (IF upload THEN 2 ELSE 1)
ScheduledAt(k) ==
    LET per == IF upload THEN 2 ELSE 1
        c == ((k - 1) \div BlockLen) + 1
        r == (k - 1) % BlockLen
        v == ((r - 2) \div per) + 1
    IN  IF r = 0 THEN <<"chdir", c, 0>>
        ELSE IF r = 1 THEN <<"prep", c, 0>>
        ELSE IF (r - 2) % per = 0 THEN <<"engine", c, v>>
        ELSE <<"upload", c, v>>

LoggedRuns ==
    Cardinality(EngineEvents) - (IF EngineFatal THEN 1 ELSE 0)

NthEngine(n) ==
    CHOOSE k \in EngineEvents : Cardinality({j \in EngineEvents : j <= k}) = n

C7_Order ==
    /\ Len(trace) <= NC * BlockLen
    /\ \A k \in DOMAIN trace :
         <<trace[k].kind, trace[k].ci, trace[k].vi>> = ScheduledAt(k)
    /\ Len(results) = LoggedRuns
    /\ \A n \in DOMAIN results :
         results[n] = LineFor(trace[NthEngine(n)].ci, trace[NthEngine(n)].vi)
    /\ LastIs("upload") => Len(results) = Cardinality(UploadEvents)
    /\ Len(printed) <= Len(results)
    /\ \A n \in DOMAIN printed : printed[n] = results[n]
    /\ (printed # <<>> \/ pc \in {"Summarizing", "Done"}) =>
         /\ Len(trace) = NC * BlockLen
         /\ Len(results) = NC * NV
         /\ exc = "none"
    /\ pc = "Done" => printed = results

C7_Witness ==
    /\ upload /\ ~dummy
    /\ pc = "Done"
    /\ Len(trace) = 60
    /\ Len(printed) = 24
    /\ printed[1] # printed[24]

\* C8: a failing upload request is neither caught nor retried: each pair is
\* uploaded at most once, the run aborts at the failure, nothing is
\* invoked afterwards and no summary line is printed.
C8_UploadErrorAborts ==
    /\ [](UploadFailed =>
            /\ pc = "Aborted"
            /\ exc = "URLError"
            /\ printed = <<>>)
    /\ [](\A i, j \in UploadEvents :
            (trace[i].ci = trace[j].ci /\ trace[i].vi = trace[j].vi) => i = j)
    /\ [][UploadFailed => UNCHANGED <<trace, printed, results, pc>>]_vars

C8_Witness ==
    /\ UploadFailed
    /\ Last.ci = 1 /\ Last.vi = 2
    /\ pc = "Aborted"
    /\ Len(results) = 2

\* C9 as stated: for any extra-flag string, runs of spaces and leading or
\* trailing spaces included, the tokens after -timeout 0 are exactly the
\* flags and no token of the vector is empty.
RECURSIVE FlagsFrom(_, _, _, _)
FlagsFrom(s, i, cur, acc) ==
    LET closed == IF cur = "" THEN acc ELSE Append(acc, cur)
    IN  IF i > Len(s) THEN closed
        ELSE IF s[i] = " " THEN FlagsFrom(s, i + 1, "", closed)
        ELSE FlagsFrom(s, i + 1, cur \o s[i], acc)

FlagsOf(s) == FlagsFrom(s, 1, "", <<>>)
ExtraTokens == SubSeq(call.args, 11, Len(call.args))
NoEmptyToken == \A k \in DOMAIN call.args : call.args[k] # ""
NumSpaces(s) == Cardinality({k \in DOMAIN s : s[k] = " "})
SingleSpaced(s) ==
    /\ s # <<>> => s[1] # " " /\ s[Len(s)] # " "
    /\ \A k \in DOMAIN s : (k > 1 /\ s[k] = " ") => s[k - 1] # " "

C9_AnyWhitespace ==
    call.done =>
        /\ ExtraTokens = FlagsOf(call.variant.semgrep_core_extra)
        /\ NoEmptyToken

\* C9 amended: the extra-flag string is split at every single space. When
\* the flags are separated by exactly one space, with no leading or
\* trailing space, the tokens after -timeout 0 are exactly the flags in
\* order and no token is empty; otherwise the vector holds an empty token,
\* and a non-empty string always yields one token more than it has spaces.
C9_SingleSpaceSplit ==
    call.done =>
        LET extra == call.variant.semgrep_core_extra
        IN  /\ SubSeq(call.args, 1, 10) =
                 <<"semgrep-core", "-j", "8", "-lang", call.corpus.language,
                   "-config", call.dir \o "/" \o call.corpus.rule_dir,
                   call.dir \o "/" \o call.corpus.target_dir, "-timeout", "0">>
            /\ SingleSpaced(extra) =>
                 ExtraTokens = FlagsOf(extra) /\ NoEmptyToken
            /\ ~SingleSpaced(extra) => ~NoEmptyToken
            /\ extra # <<>> => Len(ExtraTokens) = NumSpaces(extra) + 1
            /\ extra = <<>> => Len(call.args) = 10

C9_Witness ==
    /\ call.done
    /\ call.variant.semgrep_core_extra = <<"-a", " ", "-b", "-a">>
    /\ ExtraTokens = <<"-a", "-b-a">>

\* C10: under fair scheduling the run ends in Done or Aborted; the log
\* always holds one entry per engine run that ended with 0 or 3 and only
\* grows by appending; at Done every pair of the selected table has been
\* run exactly once and the log has |fixtures| x |variants| entries (the
\* four dummy entries in dummy mode).
C10_TerminationAndLog ==
    /\ <>(pc \in {"Done", "Aborted"})
    /\ [](Len(results) = LoggedRuns)
    /\ [][\/ results' = results
          \/ /\ Len(results') = Len(results) + 1
             /\ SubSeq(results', 1, Len(results)) = results]_vars
    /\ [](pc = "Done" =>
            /\ \A c \in 1..NC, v \in 1..NV :
                 Cardinality({k \in EngineEvents :
                                trace[k].ci = c /\ trace[k].vi = v}) = 1
            /\ Cardinality(EngineEvents) = NC * NV
            /\ Len(results) = NC * NV
            /\ NC = (IF dummy THEN 1 ELSE 6)
            /\ dummy =>
                 results = <<
                   "semgrep-core.bench.dummy.std.duration = <duration> s",
                   "semgrep-core.bench.dummy.no-bloom.duration = <duration> s",
                   "semgrep-core.bench.dummy.filter-irrelevant-rules.duration = <duration> s",
                   "semgrep-core.bench.dummy.filter-rules_no-bloom.duration = <duration> s" >>)

C10_Witness == pc = "Done" /\ dummy /\ upload /\ Len(results) = 4 /\ status = 3

====
